---------------------------- MODULE Spec2Model ----------------------------
(***************************************************************************)
(* Model of download.py: the POST /download handler of the YouTube         *)
(* downloader API, the URL validator, the dependency prober, the two fetch *)
(* functions, the streaming of the produced file and the background        *)
(* deletion of that file.                                                  *)
(*                                                                         *)
(* Strings on which the code computes (url, mode) are sequences of         *)
(* one-character strings, so that lower(), endswith() and urlparse() are   *)
(* computed and not assumed.  Optional integers (int | None) are sequences *)
(* of length 0 (None) or 1.                                                *)
(***************************************************************************)
EXTENDS Integers, Sequences, FiniteSets, TLC

(***************************************************************************)
(* Bounds of the model.                                                    *)
(***************************************************************************)
MaxTime == 1

(***************************************************************************)
(* Character strings.                                                      *)
(***************************************************************************)
LowerOf == [A |-> "a", B |-> "b", C |-> "c", D |-> "d", E |-> "e", F |-> "f", G |-> "g", H |-> "h", I |-> "i", J |-> "j", K |-> "k", L |-> "l", M |-> "m", N |-> "n", O |-> "o", P |-> "p", Q |-> "q", R |-> "r", S |-> "s", T |-> "t", U |-> "u", V |-> "v", W |-> "w", X |-> "x", Y |-> "y", Z |-> "z"]

UpperLetters == DOMAIN LowerOf

LowerLetters == {LowerOf[c] : c \in UpperLetters}

Digits == {"0", "1", "2", "3", "4", "5", "6", "7", "8", "9"}

\* The string functions are TLA+ functions, so that an argument is a value
\* when the body is evaluated.
Strings == Seq(STRING)

\* str.lower() on one character and on a string
LowerChar(c) == IF c \in UpperLetters THEN LowerOf[c] ELSE c

lower[s \in Strings] == [i \in 1..Len(s) |-> LowerChar(s[i])]

\* str.endswith(suffix)
endswith[s \in Strings, suffix \in Strings] ==
    /\ Len(suffix) <= Len(s)
    /\ SubSeq(s, Len(s) - Len(suffix) + 1, Len(s)) = suffix

\* smallest index i >= from with s[i] \in chars, 0 when there is none
FirstIndex[s \in Strings, chars \in SUBSET STRING, from \in Nat] ==
    IF \A i \in from..Len(s) : s[i] \notin chars THEN 0
    ELSE CHOOSE i \in from..Len(s) :
            s[i] \in chars /\ \A j \in from..(i - 1) : s[j] \notin chars

(***************************************************************************)
(* urllib.parse.urlparse, as far as scheme and netloc are concerned.       *)
(***************************************************************************)
scheme_chars == LowerLetters \cup UpperLetters \cup Digits \cup {"+", "-", "."}

\* position of the ':' that ends a scheme, 0 when the url has no scheme
SchemeEndAt[url \in Strings, i \in Nat] ==
    IF /\ i > 1
       /\ url[1] \in LowerLetters \cup UpperLetters
       /\ \A k \in 1..(i - 1) : url[k] \in scheme_chars
    THEN i ELSE 0

SchemeEnd[url \in Strings] == SchemeEndAt[url, FirstIndex[url, {":"}, 1]]

SplitAt[url \in Strings, i \in Nat] ==
    IF i = 0 THEN [scheme |-> <<>>, rest |-> url]
    ELSE [scheme |-> lower[SubSeq(url, 1, i - 1)], rest |-> SubSeq(url, i + 1, Len(url))]

UrlScheme[url \in Strings] == SplitAt[url, SchemeEnd[url]].scheme

AfterScheme[url \in Strings] == SplitAt[url, SchemeEnd[url]].rest

\* _splitnetloc: the text between '//' and the first of '/', '?', '#'
SplitNetloc[rest \in Strings, delim \in Nat] ==
    IF ~(Len(rest) >= 2 /\ rest[1] = "/" /\ rest[2] = "/") THEN <<>>
    ELSE IF delim = 0 THEN SubSeq(rest, 3, Len(rest))
    ELSE SubSeq(rest, 3, delim - 1)

NetlocOfRest[rest \in Strings] == SplitNetloc[rest, FirstIndex[rest, {"/", "?", "#"}, 3]]

UrlNetloc[url \in Strings] == NetlocOfRest[AfterScheme[url]]

\* urlsplit raises ValueError("Invalid IPv6 URL") on an unbalanced bracket
UnbalancedBracket[n \in Strings] ==
    \/ ("[" \in {n[i] : i \in 1..Len(n)}) /\ ("]" \notin {n[i] : i \in 1..Len(n)})
    \/ ("]" \in {n[i] : i \in 1..Len(n)}) /\ ("[" \notin {n[i] : i \in 1..Len(n)})

UrlParseRaises[url \in Strings] == UnbalancedBracket[UrlNetloc[url]]

(***************************************************************************)
(* _is_youtube_url                                                         *)
(***************************************************************************)
SuffixYoutube == <<"y", "o", "u", "t", "u", "b", "e", ".", "c", "o", "m">>

SuffixYoutuBe == <<"y", "o", "u", "t", "u", ".", "b", "e">>

\* a validator that forgets the host test (only scheme and netloc)
is_youtube_url_NoHostTest(url) ==
    IF UrlParseRaises[url] THEN FALSE
    ELSE UrlScheme[url] # <<>> /\ UrlNetloc[url] # <<>>

is_youtube_url(url) ==
    IF UrlParseRaises[url] THEN FALSE
    ELSE IF UrlScheme[url] = <<>> \/ UrlNetloc[url] = <<>> THEN FALSE
    ELSE \/ endswith[lower[UrlNetloc[url]], SuffixYoutube]
         \/ endswith[lower[UrlNetloc[url]], SuffixYoutuBe]

(***************************************************************************)
(* Requests (VideoRequest) and the inputs the model draws them from.       *)
(* quality is passed through to the format argument only and is left out.  *)
(***************************************************************************)
Requests == {"r1", "r2"}

None == <<>>

Some(t) == <<t>>

OptTimes == {None} \cup {Some(t) : t \in 0..MaxTime}

ModeFull == <<"f", "u", "l", "l">>

ModeSegment == <<"s", "e", "g", "m", "e", "n", "t">>

ModeSegmentCap == <<"S", "e", "g", "m", "e", "n", "t">>

ModeOther == <<"a", "u", "d", "i", "o">>

\* the exact lowercase "segment" is drawn by ReceiveUrl
Modes == {ModeFull, ModeSegmentCap, ModeOther}

UrlGood == <<"h", "t", "t", "p", "s", ":", "/", "/", "y", "o", "u", "t", "u", ".", "b", "e", "/", "w">>

UrlBad == <<"h", "t", "t", "p", "s", ":", "/", "/", "e", "x", "a", "m", "p", "l", "e", ".", "c", "o", "m", "/", "w">>

Urls == {UrlGood, UrlBad}

VideoRequest(url, mode, start_time, end_time) ==
    [url |-> url, mode |-> mode, start_time |-> start_time, end_time |-> end_time]

NoRequest == VideoRequest(<<>>, <<>>, None, None)

(***************************************************************************)
(* Output paths (pathlib.Path as the sequence of its components).          *)
(***************************************************************************)
FullName == "full_video.mp4"

\* the two bounds in the wrong order
SegmentNameSwapped(start_time, end_time) ==
    "video_segment_" \o ToString(end_time) \o "s_to_" \o ToString(start_time) \o "s.mp4"

SegmentName(start_time, end_time) ==
    "video_segment_" \o ToString(start_time) \o "s_to_" \o ToString(end_time) \o "s.mp4"

PathOf(output_filename) == <<"downloads", output_filename>>

PathName(path) == path[Len(path)]

\* bounds of the requests that are drawn one at a time (ReceiveArgs)
ArgTimes == {-3, 0, 10, 25}

Paths ==
    {PathOf(FullName)} \cup
    {PathOf(SegmentName(s, e)) : s \in (0..MaxTime) \cup ArgTimes,
                                 e \in (0..MaxTime) \cup ArgTimes}

Absent == "absent"

NoOne == "nobody"

NoPath == <<>>

NoCmd == [output |-> NoPath, ss |-> None, t |-> None, args |-> ""]

NoErr == [cls |-> "none", cause |-> "none"]

ExitCodes == {0, 1}

(***************************************************************************)
(* State.                                                                  *)
(***************************************************************************)
VARIABLES
    req,       \* req[r]: the parsed body of request r
    pc,        \* pc[r]: where the handling of request r stands
    loop,      \* the request whose coroutine occupies the event loop thread
    spawned,   \* spawned[r]: the external processes started for r, in order
    cmd,       \* cmd[r]: output path and transcoder arguments of r's fetch
    fs,        \* fs[p]: the request whose fetch wrote file p, or Absent
    resp,      \* resp[r]: HTTP status sent to the caller, 0 while none
    err,       \* err[r]: class and cause of the exception that ended r
    bg,        \* bg[r]: the deletion task has been added to BackgroundTasks
    filename,  \* filename[r]: filename of the FileResponse, "" while none
    body       \* body[r]: whose content is being streamed to r's caller

vars == <<req, pc, loop, spawned, cmd, fs, resp, err, bg, filename, body>>

Init ==
    /\ req = [r \in Requests |-> NoRequest]
    /\ pc = [r \in Requests |-> "idle"]
    /\ loop = NoOne
    /\ spawned = [r \in Requests |-> <<>>]
    /\ cmd = [r \in Requests |-> NoCmd]
    /\ fs = [p \in Paths |-> Absent]
    /\ resp = [r \in Requests |-> 0]
    /\ err = [r \in Requests |-> NoErr]
    /\ bg = [r \in Requests |-> FALSE]
    /\ filename = [r \in Requests |-> ""]
    /\ body = [r \in Requests |-> Absent]

(***************************************************************************)
(* The except clause of api_download and the raise statements.             *)
(***************************************************************************)
\* isinstance(e, ValueError) -> 400, anything else -> 500
ExceptStatus(cls) == IF cls = "ValueError" THEN 400 ELSE 500

\* the except clause swallows the exception: no response is produced
RaiseSwallowed(r, cls, cause) ==
    /\ pc' = [pc EXCEPT ![r] = "done"]
    /\ err' = [err EXCEPT ![r] = [cls |-> cls, cause |-> cause]]
    /\ resp' = resp
    /\ loop' = NoOne

\* an exception of class cls raised inside the try block of request r
Raise(r, cls, cause) ==
    /\ pc' = [pc EXCEPT ![r] = "done"]
    /\ err' = [err EXCEPT ![r] = [cls |-> cls, cause |-> cause]]
    /\ resp' = [resp EXCEPT ![r] = ExceptStatus(cls)]
    /\ loop' = NoOne

LoopFreeFor(r) == loop \in {NoOne, r}

(***************************************************************************)
(* POST /download: the framework parses the body into a VideoRequest.      *)
(***************************************************************************)
Receive(r) ==
    /\ pc[r] = "idle"
    /\ LoopFreeFor(r)
    /\ \E url \in Urls, mode \in Modes, start_time \in OptTimes, end_time \in OptTimes :
          req' = [req EXCEPT ![r] = VideoRequest(url, mode, start_time, end_time)]
    /\ pc' = [pc EXCEPT ![r] = "received"]
    /\ UNCHANGED <<loop, spawned, cmd, fs, resp, err, bg, filename, body>>

(***************************************************************************)
(* api_download up to the await.                                           *)
(***************************************************************************)
\* the mode compared without lower()
IsSegmentExact(q) == q.mode = ModeSegment

IsSegment(q) == lower[q.mode] = ModeSegment

\* "and" in place of "or": only a request lacking both bounds is rejected
MissingBoundsBoth(q) == q.start_time = None /\ q.end_time = None

MissingBounds(q) == q.start_time = None \/ q.end_time = None

\* a blocking call of the download function keeps the event loop thread
call_directly(r) == r

\* await asyncio.to_thread(...): the coroutine is suspended and the event
\* loop thread is free while the download function runs on a worker thread
asyncio_to_thread(r) == NoOne

api_download(r) ==
    /\ pc[r] = "received"
    /\ LoopFreeFor(r)
    /\ IF IsSegment(req[r]) /\ MissingBounds(req[r])
       THEN Raise(r, "HTTPException", "MissingSegmentBounds")
       ELSE /\ pc' = [pc EXCEPT ![r] = "validate"]
            /\ loop' = asyncio_to_thread(r)
            /\ UNCHANGED <<resp, err>>
    /\ UNCHANGED <<req, spawned, cmd, fs, bg, filename, body>>


(***************************************************************************)
(* subprocess.run(cmd, check=True) on a worker thread, in two steps: the   *)
(* process is started (or the executable is not found and                  *)
(* FileNotFoundError is raised), then it exits with some status.           *)
(***************************************************************************)
SubprocessStart(r, at, proc, waiting, notFoundCls, cause) ==
    /\ pc[r] = at
    /\ \/ /\ Raise(r, notFoundCls, cause)
          /\ UNCHANGED spawned
       \/ /\ pc' = [pc EXCEPT ![r] = waiting]
          /\ spawned' = [spawned EXCEPT ![r] = Append(@, proc)]
          /\ UNCHANGED <<loop, resp, err>>

SubprocessExit(r, waiting, next, nonZeroCls, cause) ==
    /\ pc[r] = waiting
    /\ \E code \in ExitCodes :
          IF code = 0
          THEN /\ pc' = [pc EXCEPT ![r] = next]
               /\ UNCHANGED <<loop, resp, err>>
          ELSE Raise(r, nonZeroCls, cause)

(***************************************************************************)
(* validate_youtube_url_downloadable and check_dependencies.               *)
(***************************************************************************)
validate_youtube_url_downloadable(r) ==
    /\ pc[r] = "validate"
    /\ IF ~is_youtube_url(req[r].url)
       THEN Raise(r, "ValueError", "InvalidURL")
       ELSE /\ pc' = [pc EXCEPT ![r] = "check_ytdlp"]
            /\ UNCHANGED <<loop, resp, err>>
    /\ UNCHANGED <<req, spawned, cmd, fs, bg, filename, body>>

\* class of the exception check_dependencies raises for a dead tool
DependencyFailureAsValueError == "ValueError"

DependencyFailure == "RuntimeError"

\* the probe is skipped when another request has already run it
check_ytdlp_cached(r) ==
    /\ IF \E o \in Requests \ {r} : spawned[o] # <<>>
       THEN /\ pc[r] = "check_ytdlp"
            /\ pc' = [pc EXCEPT ![r] = "check_ffmpeg"]
            /\ UNCHANGED <<loop, resp, err, spawned>>
       ELSE SubprocessStart(r, "check_ytdlp", "yt-dlp --version", "wait_ytdlp",
                            DependencyFailure, "MissingDependency")
    /\ UNCHANGED <<req, cmd, fs, bg, filename, body>>

check_ytdlp_start(r) ==
    /\ SubprocessStart(r, "check_ytdlp", "yt-dlp --version", "wait_ytdlp",
                       DependencyFailure, "MissingDependency")
    /\ UNCHANGED <<req, cmd, fs, bg, filename, body>>

check_ytdlp_exit(r) ==
    /\ SubprocessExit(r, "wait_ytdlp", "check_ffmpeg",
                      DependencyFailure, "MissingDependency")
    /\ UNCHANGED <<req, spawned, cmd, fs, bg, filename, body>>

check_ffmpeg_start(r) ==
    /\ SubprocessStart(r, "check_ffmpeg", "ffmpeg -version", "wait_ffmpeg",
                       DependencyFailure, "MissingDependency")
    /\ UNCHANGED <<req, cmd, fs, bg, filename, body>>

check_ffmpeg_exit(r) ==
    /\ SubprocessExit(r, "wait_ffmpeg", "simulate",
                      DependencyFailure, "MissingDependency")
    /\ UNCHANGED <<req, spawned, cmd, fs, bg, filename, body>>

\* the dry-run probe: only CalledProcessError is caught (-> ValueError)
simulate_start(r) ==
    /\ SubprocessStart(r, "simulate", "yt-dlp --simulate", "wait_simulate",
                       "FileNotFoundError", "ToolNotFound")
    /\ UNCHANGED <<req, cmd, fs, bg, filename, body>>

simulate_exit(r) ==
    /\ SubprocessExit(r, "wait_simulate", "fetch", "ValueError", "NotDownloadable")
    /\ UNCHANGED <<req, spawned, cmd, fs, bg, filename, body>>

(***************************************************************************)
(* download_full_video and download_video_segment after the validation.    *)
(***************************************************************************)
\* args: the value of --external-downloader-args, "" when the option is absent
FullCmd == [output |-> PathOf(FullName), ss |-> None, t |-> None, args |-> ""]

\* the end bound handed over as the duration
SegmentCmdEndAsDuration(start_time, end_time) ==
    LET duration == end_time
    IN  [output |-> PathOf(SegmentName(start_time, end_time)),
         ss |-> Some(start_time), t |-> Some(duration),
         args |-> "ffmpeg:-ss " \o ToString(start_time) \o " -t " \o ToString(duration)]

SegmentCmd(start_time, end_time) ==
    LET duration == end_time - start_time
    IN  [output |-> PathOf(SegmentName(start_time, end_time)),
         ss |-> Some(start_time), t |-> Some(duration),
         args |-> "ffmpeg:-ss " \o ToString(start_time) \o " -t " \o ToString(duration)]

download_full_video(r) ==
    /\ ~IsSegment(req[r])
    /\ SubprocessStart(r, "fetch", "yt-dlp fetch", "wait_fetch",
                       "FileNotFoundError", "ToolNotFound")
    /\ cmd' = [cmd EXCEPT ![r] = IF pc'[r] = "wait_fetch" THEN FullCmd ELSE @]
    /\ UNCHANGED <<req, fs, bg, filename, body>>

download_video_segment(r) ==
    /\ IsSegment(req[r])
    /\ IF MissingBounds(req[r])
       THEN \* end_time - start_time on None
            /\ pc[r] = "fetch"
            /\ Raise(r, "TypeError", "NoneOperand")
            /\ UNCHANGED <<spawned, cmd>>
       ELSE /\ SubprocessStart(r, "fetch", "yt-dlp fetch", "wait_fetch",
                               "FileNotFoundError", "ToolNotFound")
            /\ cmd' = [cmd EXCEPT ![r] =
                         IF pc'[r] = "wait_fetch"
                         THEN SegmentCmd(req[r].start_time[1], req[r].end_time[1])
                         ELSE @]
    /\ UNCHANGED <<req, fs, bg, filename, body>>

\* the running fetch tool writes (or overwrites) its output file
fetch_write(r) ==
    /\ pc[r] = "wait_fetch"
    /\ fs' = [fs EXCEPT ![cmd[r].output] = r]
    /\ UNCHANGED <<req, pc, loop, spawned, cmd, resp, err, bg, filename, body>>

\* a failed fetch removes its partial output before it raises
fetch_exit_removing(r) ==
    /\ SubprocessExit(r, "wait_fetch", "respond", "RuntimeError", "FetchError")
    /\ fs' = IF pc'[r] = "done" THEN [fs EXCEPT ![cmd[r].output] = Absent] ELSE fs
    /\ UNCHANGED <<req, spawned, cmd, bg, filename, body>>

fetch_exit(r) ==
    /\ SubprocessExit(r, "wait_fetch", "respond", "RuntimeError", "FetchError")
    /\ UNCHANGED <<req, spawned, cmd, fs, bg, filename, body>>

(***************************************************************************)
(* api_download after the await: FileResponse and the background task.     *)
(***************************************************************************)
\* the file is unlinked in the handler, before the response is returned
respond_unlink_now(r) ==
    /\ pc[r] = "respond"
    /\ LoopFreeFor(r)
    /\ filename' = [filename EXCEPT ![r] = PathName(cmd[r].output)]
    /\ fs' = [fs EXCEPT ![cmd[r].output] = Absent]
    /\ bg' = [bg EXCEPT ![r] = TRUE]
    /\ pc' = [pc EXCEPT ![r] = "send"]
    /\ loop' = NoOne
    /\ UNCHANGED <<req, spawned, cmd, resp, err, body>>

\* the handler tests the file and reports a missing one as a ValueError
respond_checking(r) ==
    /\ pc[r] = "respond"
    /\ LoopFreeFor(r)
    /\ IF fs[cmd[r].output] = Absent
       THEN /\ Raise(r, "ValueError", "NoOutput")
            /\ UNCHANGED <<filename, bg>>
       ELSE /\ filename' = [filename EXCEPT ![r] = PathName(cmd[r].output)]
            /\ bg' = [bg EXCEPT ![r] = TRUE]
            /\ pc' = [pc EXCEPT ![r] = "send"]
            /\ loop' = NoOne
            /\ UNCHANGED <<resp, err>>
    /\ UNCHANGED <<req, spawned, cmd, fs, body>>

respond(r) ==
    /\ pc[r] = "respond"
    /\ LoopFreeFor(r)
    /\ filename' = [filename EXCEPT ![r] = PathName(cmd[r].output)]
    /\ bg' = [bg EXCEPT ![r] = TRUE]
    /\ pc' = [pc EXCEPT ![r] = "send"]
    /\ loop' = NoOne
    /\ UNCHANGED <<req, spawned, cmd, fs, resp, err, body>>

(***************************************************************************)
(* The framework sends the FileResponse: it stats and opens the file       *)
(* (RuntimeError outside the handler, hence 500, when the file does not    *)
(* exist), streams it, and runs the background tasks after the last byte.  *)
(***************************************************************************)
send_start(r) ==
    /\ pc[r] = "send"
    /\ LoopFreeFor(r)
    /\ IF fs[cmd[r].output] = Absent
       THEN /\ pc' = [pc EXCEPT ![r] = "done"]
            /\ err' = [err EXCEPT ![r] = [cls |-> "RuntimeError", cause |-> "FileMissingAtSend"]]
            /\ resp' = [resp EXCEPT ![r] = 500]
            /\ UNCHANGED body
       ELSE /\ pc' = [pc EXCEPT ![r] = "streaming"]
            /\ resp' = [resp EXCEPT ![r] = 200]
            /\ body' = [body EXCEPT ![r] = fs[cmd[r].output]]
            /\ UNCHANGED err
    /\ UNCHANGED <<req, loop, spawned, cmd, fs, bg, filename>>

send_done(r) ==
    /\ pc[r] = "streaming"
    /\ LoopFreeFor(r)
    /\ pc' = [pc EXCEPT ![r] = "sent"]
    /\ UNCHANGED <<req, loop, spawned, cmd, fs, resp, err, bg, filename, body>>

\* Path.unlink on a missing file raises unless missing_ok
unlink_raises_strict(exists, missing_ok) == ~exists

unlink_raises(exists, missing_ok) == ~exists /\ ~missing_ok

\* background task: file_path.unlink(True)
cleanup(r) ==
    /\ pc[r] = "sent"
    /\ bg[r]
    /\ fs' = [fs EXCEPT ![cmd[r].output] = Absent]
    /\ err' = [err EXCEPT ![r] =
                 IF unlink_raises(fs[cmd[r].output] # Absent, TRUE)
                 THEN [cls |-> "FileNotFoundError", cause |-> "UnlinkMissing"]
                 ELSE @]
    /\ pc' = [pc EXCEPT ![r] = "done"]
    /\ UNCHANGED <<req, loop, spawned, cmd, resp, bg, filename, body>>

(***************************************************************************)
(* The system: any number of requests in flight, steps interleaved.        *)
(***************************************************************************)
Handle(r) ==
    \/ api_download(r)
    \/ validate_youtube_url_downloadable(r)
    \/ check_ytdlp_start(r)
    \/ check_ytdlp_exit(r)
    \/ check_ffmpeg_start(r)
    \/ check_ffmpeg_exit(r)
    \/ simulate_start(r)
    \/ simulate_exit(r)
    \/ download_full_video(r)
    \/ download_video_segment(r)
    \/ fetch_write(r)
    \/ fetch_exit(r)
    \/ respond(r)
    \/ send_start(r)
    \/ send_done(r)
    \/ cleanup(r)

Step(r) == Receive(r) \/ Handle(r)

Next == \E r \in Requests : Step(r)

Spec == Init /\ [][Next]_vars

(***************************************************************************)
(* One request at a time over a large family of URLs: every combination of *)
(* a scheme part, a host prefix, a domain and a tail.                      *)
(***************************************************************************)
SchemeParts ==
    { <<"h", "t", "t", "p", "s", ":", "/", "/">>,
      <<"H", "T", "T", "P", "S", ":", "/", "/">>,
      <<>>,
      <<"h", "t", "t", "p", "s", ":">>,
      <<"h", "t", "t", "p", "s", ":", "/", "/", "/">> }

HostPrefixes ==
    { <<>>,
      <<"w", "w", "w", ".">>,
      <<"n", "o", "t">>,
      <<"u", "@">>,
      <<"[">> }

Domains ==
    { <<"y", "o", "u", "t", "u", "b", "e", ".", "c", "o", "m">>,
      <<"Y", "o", "u", "T", "u", "b", "e", ".", "C", "O", "M">>,
      <<"y", "o", "u", "t", "u", ".", "b", "e">>,
      <<"e", "x", "a", "m", "p", "l", "e", ".", "c", "o", "m">>,
      <<"y", "o", "u", "t", "u", "b", "e", ".", "o", "r", "g">> }

Tails ==
    { <<>>,
      <<"/", "w">>,
      <<":", "8", "0">>,
      <<"?", "v", "=", "1">>,
      <<".", "e", "v", "i", "l", ".", "i", "o">>,
      <<"/", "y", "o", "u", "t", "u", "b", "e", ".", "c", "o", "m">> }

UrlCases ==
    {a \o b \o c \o d : a \in SchemeParts, b \in HostPrefixes, c \in Domains, d \in Tails}

ReceiveUrl(r) ==
    /\ pc[r] = "idle"
    /\ LoopFreeFor(r)
    /\ \E url \in UrlCases, mode \in {ModeFull, ModeSegment} :
          req' = [req EXCEPT ![r] = VideoRequest(url, mode, Some(0), Some(MaxTime))]
    /\ pc' = [pc EXCEPT ![r] = "received"]
    /\ UNCHANGED <<loop, spawned, cmd, fs, resp, err, bg, filename, body>>

NextUrl == ReceiveUrl("r1") \/ Handle("r1")

SpecUrl == Init /\ [][NextUrl]_vars


(***************************************************************************)
(* One request at a time with a reachable URL, over every spelling of the  *)
(* mode and over bounds that are absent, negative, zero, equal or ordered  *)
(* either way.                                                             *)
(***************************************************************************)
ModeFullCap == <<"F", "U", "L", "L">>

ArgModes == {ModeFull, ModeFullCap, ModeSegment, ModeSegmentCap, ModeOther}

ArgOptTimes == {None} \cup {Some(t) : t \in ArgTimes}

ReceiveArgs(r) ==
    /\ pc[r] = "idle"
    /\ LoopFreeFor(r)
    /\ \E mode \in ArgModes, start_time \in ArgOptTimes, end_time \in ArgOptTimes :
          req' = [req EXCEPT ![r] = VideoRequest(UrlGood, mode, start_time, end_time)]
    /\ pc' = [pc EXCEPT ![r] = "received"]
    /\ UNCHANGED <<loop, spawned, cmd, fs, resp, err, bg, filename, body>>

NextArgs == ReceiveArgs("r1") \/ Handle("r1")

SpecArgs == Init /\ [][NextArgs]_vars

(***************************************************************************)
(* Two concurrent requests under fair scheduling: a step of a request that *)
(* stays possible is eventually taken (the event loop resumes a ready      *)
(* coroutine, a worker thread runs, a spawned process exits).  The tool's  *)
(* writes and the arrival of a request are under no obligation.            *)
(***************************************************************************)
FairOptTimes == {None, Some(0)}

ReceiveFair(r) ==
    /\ pc[r] = "idle"
    /\ LoopFreeFor(r)
    /\ \E url \in Urls, mode \in {ModeFull, ModeSegmentCap},
          start_time \in FairOptTimes, end_time \in FairOptTimes :
          req' = [req EXCEPT ![r] = VideoRequest(url, mode, start_time, end_time)]
    /\ pc' = [pc EXCEPT ![r] = "received"]
    /\ UNCHANGED <<loop, spawned, cmd, fs, resp, err, bg, filename, body>>

Advance(r) ==
    \/ api_download(r)
    \/ validate_youtube_url_downloadable(r)
    \/ check_ytdlp_start(r)
    \/ check_ytdlp_exit(r)
    \/ check_ffmpeg_start(r)
    \/ check_ffmpeg_exit(r)
    \/ simulate_start(r)
    \/ simulate_exit(r)
    \/ download_full_video(r)
    \/ download_video_segment(r)
    \/ fetch_exit(r)
    \/ respond(r)
    \/ send_start(r)
    \/ send_done(r)
    \/ cleanup(r)

NextFair == \E r \in Requests : ReceiveFair(r) \/ Handle(r)

SpecPair == Init /\ [][NextFair]_vars

SpecFair == SpecPair /\ \A r \in Requests : WF_vars(Advance(r))

(***************************************************************************)
(* Vocabulary of the properties.                                           *)
(***************************************************************************)
Range(seq) == {seq[i] : i \in 1..Len(seq)}

\* the request is a segment request that lacks a time bound
SegmentWithoutBounds(q) ==
    lower[q.mode] = ModeSegment /\ (q.start_time = None \/ q.end_time = None)

\* the exception causes the specification classes as validation failures
ValidationCauses == {"InvalidURL", "NotDownloadable", "MissingSegmentBounds"}

\* the process names of the probes and of the fetch
DependencyProbes == {"yt-dlp --version", "ffmpeg -version"}

\* the states in which request r waits for an external process to exit
WaitPcs == {"wait_ytdlp", "wait_ffmpeg", "wait_simulate", "wait_fetch"}

\* between the successful exit of the fetch and the end of the transmission
OwnerPcs == {"respond", "send", "streaming"}

\* urlparse(url).hostname: netloc without userinfo and port, lowercased
AfterUserinfo[n \in Strings] ==
    IF "@" \notin {n[i] : i \in 1..Len(n)} THEN n
    ELSE SubSeq(n, 1 + (CHOOSE i \in 1..Len(n) :
                           n[i] = "@" /\ \A j \in (i + 1)..Len(n) : n[j] # "@"), Len(n))

BeforePort[h \in Strings, colon \in Nat] ==
    IF colon = 0 THEN h ELSE SubSeq(h, 1, colon - 1)

HostOfNetloc[h \in Strings] == BeforePort[h, FirstIndex[h, {":"}, 1]]

HostOf(url) == HostOfNetloc[AfterUserinfo[lower[UrlNetloc[url]]]]

\* host is the domain itself or one of its subdomains
IsDomainOrSubdomain(host, domain) ==
    host = domain \/ endswith[host, <<".">> \o domain]

HostRecognized(url) ==
    /\ UrlScheme[url] # <<>>
    /\ UrlNetloc[url] # <<>>
    /\ \/ IsDomainOrSubdomain(HostOf(url), SuffixYoutube)
       \/ IsDomainOrSubdomain(HostOf(url), SuffixYoutuBe)

\* the test of the code: the lowercased netloc ends with one of the domains
HostSuffixMatches(url) ==
    /\ UrlScheme[url] # <<>>
    /\ UrlNetloc[url] # <<>>
    /\ ~UrlParseRaises[url]
    /\ \/ endswith[lower[UrlNetloc[url]], SuffixYoutube]
       \/ endswith[lower[UrlNetloc[url]], SuffixYoutuBe]

(***************************************************************************)
(* C1: a segment request that lacks start_time or end_time is answered     *)
(* with HTTP 400.                                                          *)
(***************************************************************************)
C1_MissingBoundsAnswered400 ==
    \A r \in Requests :
        pc[r] = "done" /\ SegmentWithoutBounds(req[r]) => resp[r] = 400

(***************************************************************************)
(* C2: a request that ends in failure is answered 400 exactly when the     *)
(* failure is of the validation class (bad URL, dry-run probe non-zero,    *)
(* missing segment bounds), and 500 for every other failure.               *)
(***************************************************************************)
C2_FailureClasses ==
    \A r \in Requests :
        pc[r] = "done" /\ err[r] # NoErr =>
            resp[r] = IF err[r].cause \in ValidationCauses THEN 400 ELSE 500

(***************************************************************************)
(* C3: from the successful exit of a request's fetch to the end of its     *)
(* transmission, the file its fetch produced is neither overwritten nor    *)
(* deleted by any step.                                                    *)
(***************************************************************************)
C3_ExclusiveOwnership ==
    [][\A r \in Requests :
          pc[r] \in OwnerPcs /\ fs[cmd[r].output] = r => fs'[cmd[r].output] = r]_vars

(***************************************************************************)
(* C4: a request deletes its file only once its response is fully sent,    *)
(* the deletion leaves the path absent, and a request that was answered    *)
(* 200 and cleaned up has raised no error, also when the file was already  *)
(* gone.                                                                   *)
(***************************************************************************)
C4_DeleteAfterSend ==
    /\ [](\A r \in Requests : pc[r] = "done" /\ resp[r] = 200 => err[r] = NoErr)
    /\ [][\A r \in Requests :
             /\ (pc[r] = "sent" /\ pc'[r] = "done" => fs'[cmd[r].output] = Absent)
             /\ (pc'[r] # pc[r] /\ fs' # fs /\ fs'[cmd'[r].output] = Absent
                    => pc[r] = "sent")]_vars

\* one request answered 200 and cleaned up, the other fully sent while its
\* file is already gone
C4_Witness ==
    /\ pc["r1"] = "done" /\ resp["r1"] = 200 /\ fs[cmd["r1"].output] = Absent
    /\ pc["r2"] = "sent" /\ fs[cmd["r2"].output] = Absent

(***************************************************************************)
(* C5: whenever the fetch tool has been spawned for a segment request,     *)
(* both bounds are present and end_time > start_time, so the duration is   *)
(* strictly positive.                                                      *)
(***************************************************************************)
C5_SegmentFetchHasPositiveDuration ==
    \A r \in Requests :
        lower[req[r].mode] = ModeSegment /\ "yt-dlp fetch" \in Range(spawned[r]) =>
            /\ req[r].start_time # None
            /\ req[r].end_time # None
            /\ req[r].end_time[1] > req[r].start_time[1]
            /\ cmd[r].t[1] > 0

C7_MissingBoundsSpawnsNothing ==
    /\ [](\A r \in Requests :
             SegmentWithoutBounds(req[r]) =>
                 /\ spawned[r] = <<>>
                 /\ cmd[r] = NoCmd
                 /\ ~bg[r]
                 /\ pc[r] \in {"received", "done"})
    /\ [][\A r \in Requests :
             SegmentWithoutBounds(req'[r]) /\ pc'[r] # pc[r] => fs' = fs]_vars

\* such a request has been answered while the other one has a file on disk
C7_Witness ==
    /\ pc["r1"] = "done"
    /\ SegmentWithoutBounds(req["r1"])
    /\ req["r1"].start_time # None
    /\ spawned["r1"] = <<>>
    /\ \E p \in Paths : fs[p] = "r2"

(***************************************************************************)
(* C8: a request whose dependency check failed is answered 500, and        *)
(* neither the dry-run probe nor the fetch was spawned for it.             *)
(***************************************************************************)
C8_DependencyFailureIs500 ==
    \A r \in Requests :
        err[r].cause = "MissingDependency" =>
            /\ pc[r] = "done"
            /\ resp[r] = 500
            /\ Range(spawned[r]) \subseteq DependencyProbes

\* the transcoder's version probe was started and exited non-zero
C8_Witness ==
    /\ err["r1"].cause = "MissingDependency"
    /\ spawned["r1"] = <<"yt-dlp --version", "ffmpeg -version">>
    /\ pc["r1"] = "done"

(***************************************************************************)
(* C9: a URL that passes the host check has youtube.com or youtu.be, or a  *)
(* subdomain of one of them, as its host.                                  *)
(***************************************************************************)
C9_AcceptedHostIsRecognized ==
    \A r \in Requests :
        pc[r] \notin {"idle", "received", "validate"} /\ err[r].cause # "InvalidURL"
        /\ ~SegmentWithoutBounds(req[r])
            => HostRecognized(req[r].url)

(***************************************************************************)
(* C10: while a request waits for one of its external processes to exit,   *)
(* every other request that is not finished can take its next step.        *)
(***************************************************************************)
C10_NotBlocked ==
    \A r1 \in Requests, r2 \in Requests :
        r1 # r2 /\ pc[r1] \in WaitPcs /\ pc[r2] # "done" => ENABLED Step(r2)

\* one request was answered 200 while the other still waits for its first probe
C10_Witness ==
    /\ pc["r1"] = "wait_ytdlp"
    /\ pc["r2"] = "sent"
    /\ resp["r2"] = 200


(***************************************************************************)
(* C11: the fetch of a segment request with bounds start and end hands the *)
(* transcoder the seek offset start and the duration end - start, whatever *)
(* the sign of the difference; start = 10 and end = 25 give duration 15.   *)
(***************************************************************************)
C11_TranscoderArguments ==
    \A r \in Requests :
        lower[req[r].mode] = ModeSegment /\ "yt-dlp fetch" \in Range(spawned[r]) =>
            /\ cmd[r].ss = req[r].start_time
            /\ cmd[r].t = <<req[r].end_time[1] - req[r].start_time[1]>>
            /\ cmd[r].args = "ffmpeg:-ss " \o ToString(req[r].start_time[1]) \o " -t "
                                \o ToString(req[r].end_time[1] - req[r].start_time[1])
            /\ (req[r].start_time = <<10>> /\ req[r].end_time = <<25>> =>
                    cmd[r].t = <<15>> /\ cmd[r].args = "ffmpeg:-ss 10 -t 15")

\* the fetch of the segment from 10 to 25 is running
C11_Witness ==
    /\ pc["r1"] = "wait_fetch"
    /\ req["r1"].start_time = <<10>>
    /\ req["r1"].end_time = <<25>>
    /\ cmd["r1"].args = "ffmpeg:-ss 10 -t 15"

(***************************************************************************)
(* C12: a full fetch writes downloads/full_video.mp4 and a segment fetch   *)
(* with bounds start and end writes                                        *)
(* downloads/video_segment_{start}s_to_{end}s.mp4 and no other file, and   *)
(* the filename of the response is that name.                              *)
(***************************************************************************)
ExpectedName(q) ==
    IF lower[q.mode] = ModeSegment
    THEN "video_segment_" \o ToString(q.start_time[1]) \o "s_to_"
            \o ToString(q.end_time[1]) \o "s.mp4"
    ELSE "full_video.mp4"

C12_DefaultFilenames ==
    \A r \in Requests :
        "yt-dlp fetch" \in Range(spawned[r]) =>
            /\ cmd[r].output = <<"downloads", ExpectedName(req[r])>>
            /\ \A p \in Paths : fs[p] = r => p = <<"downloads", ExpectedName(req[r])>>
            /\ (pc[r] \in {"send", "streaming", "sent"} \/ resp[r] = 200 =>
                    filename[r] = ExpectedName(req[r]))
            /\ (req[r].start_time = <<10>> /\ req[r].end_time = <<25>>
                /\ lower[req[r].mode] = ModeSegment =>
                    cmd[r].output = <<"downloads", "video_segment_10s_to_25s.mp4">>)

\* the segment from 10 to 25 was written and is answered under its name
C12_Witness ==
    /\ resp["r1"] = 200
    /\ filename["r1"] = "video_segment_10s_to_25s.mp4"
    /\ fs[<<"downloads", "video_segment_10s_to_25s.mp4">>] = "r1"


(***************************************************************************)
(* The states of the Request Handler's state machine.  The parameters of   *)
(* the mode are validated by the step that leaves "received".              *)
(***************************************************************************)
DispatchPcs ==
    {"validate", "check_ytdlp", "wait_ytdlp", "check_ffmpeg", "wait_ffmpeg",
     "simulate", "wait_simulate", "fetch", "wait_fetch", "respond"}

Phase(r) ==
    CASE pc[r] = "idle" -> "Idle"
      [] pc[r] = "received" -> "Validating-Mode-Params"
      [] pc[r] \in DispatchPcs -> "Dispatching"
      [] pc[r] \in {"send", "streaming", "sent"} -> "Streaming"
      [] pc[r] = "done" /\ resp[r] = 200 -> "Cleanup"
      [] OTHER -> "Failed"

ClaimedOrder ==
    { <<"Idle", "Validating-Mode-Params">>,
      <<"Validating-Mode-Params", "Dispatching">>,
      <<"Dispatching", "Streaming">>,
      <<"Dispatching", "Failed">>,
      <<"Streaming", "Cleanup">>,
      <<"Failed", "Cleanup">> }

ActualOrder ==
    { <<"Idle", "Validating-Mode-Params">>,
      <<"Validating-Mode-Params", "Dispatching">>,
      <<"Validating-Mode-Params", "Failed">>,
      <<"Dispatching", "Streaming">>,
      <<"Dispatching", "Failed">>,
      <<"Streaming", "Failed">>,
      <<"Streaming", "Cleanup">> }

(***************************************************************************)
(* C13 as claimed: a request changes state only along Received ->          *)
(* Validating-Mode-Params -> Dispatching -> (Streaming | Failed) ->        *)
(* Cleanup, Failed being entered only from Dispatching.                    *)
(***************************************************************************)
C13_StateMachineAsClaimed ==
    [][\A r \in Requests :
          Phase(r)' # Phase(r) => <<Phase(r), Phase(r)'>> \in ClaimedOrder]_vars

(***************************************************************************)
(* C13 as amended: the states are visited in this order, Failed is entered *)
(* from Validating-Mode-Params, Dispatching or Streaming, nothing follows  *)
(* Failed, and a request removes a file only by the step from Streaming    *)
(* into Cleanup.                                                           *)
(***************************************************************************)
C13_StateMachine ==
    [][\A r \in Requests :
          /\ Phase(r)' # Phase(r) => <<Phase(r), Phase(r)'>> \in ActualOrder
          /\ pc'[r] # pc[r] /\ fs' # fs =>
                Phase(r) = "Streaming" /\ Phase(r)' = "Cleanup"]_vars

\* one request was cleaned up after streaming, the other failed while its
\* mode parameters were validated
C13_Witness ==
    /\ Phase("r1") = "Cleanup"
    /\ fs[cmd["r1"].output] = Absent
    /\ Phase("r2") = "Failed"
    /\ spawned["r2"] = <<>>
    /\ err["r2"].cause = "MissingSegmentBounds"

(***************************************************************************)
(* C14: the processes spawned for a request are a prefix of version probe  *)
(* of the fetch tool, version probe of the transcoder, dry-run probe,      *)
(* fetch; a process is spawned only from the state reached by the zero     *)
(* exit of the one before it, never after an error, and every request      *)
(* runs its own dependency probes.                                         *)
(***************************************************************************)
ProcOrder == <<"yt-dlp --version", "ffmpeg -version", "yt-dlp --simulate", "yt-dlp fetch">>

StartPcOf == <<"check_ytdlp", "check_ffmpeg", "simulate", "fetch">>

WaitPcOf == <<"wait_ytdlp", "wait_ffmpeg", "wait_simulate", "wait_fetch">>

IsPrefix(a, b) == Len(a) <= Len(b) /\ a = SubSeq(b, 1, Len(a))

C14_ProcessSequence ==
    /\ [](\A r \in Requests :
             /\ IsPrefix(spawned[r], ProcOrder)
             /\ \A k \in 1..4 :
                   /\ pc[r] = StartPcOf[k] => Len(spawned[r]) = k - 1 /\ err[r] = NoErr
                   /\ pc[r] = WaitPcOf[k] => Len(spawned[r]) = k /\ err[r] = NoErr)
    /\ [][\A r \in Requests :
             /\ spawned'[r] # spawned[r] =>
                   /\ Len(spawned[r]) < 4
                   /\ pc[r] = StartPcOf[Len(spawned[r]) + 1]
                   /\ spawned'[r] = Append(spawned[r], ProcOrder[Len(spawned[r]) + 1])
             /\ \A k \in 2..4 :
                   pc'[r] = StartPcOf[k] /\ pc[r] # pc'[r] => pc[r] = WaitPcOf[k - 1]]_vars

\* both requests have run all four processes, the dependency probes included
C14_Witness ==
    /\ spawned["r1"] = ProcOrder
    /\ spawned["r2"] = ProcOrder
    /\ pc["r1"] = "done"
    /\ pc["r2"] = "wait_fetch"


(***************************************************************************)
(* C15 as claimed: a request that ended with 400 or 500 has scheduled no   *)
(* cleanup task, and the step that ends it with an error deletes no file.  *)
(***************************************************************************)
C15_ErrorSchedulesNothingAsClaimed ==
    /\ [](\A r \in Requests :
             pc[r] = "done" /\ resp[r] \in {400, 500} => ~bg[r])
    /\ [][\A r \in Requests :
             pc[r] # "done" /\ pc'[r] = "done" /\ resp'[r] \in {400, 500} => fs' = fs]_vars

(***************************************************************************)
(* C15 as amended: a cleanup task is scheduled only once the fetch has     *)
(* been spawned and the file response built; a request that ended with     *)
(* 400 or 500 has a task scheduled only when its 500 is the one for a file *)
(* missing at send; the step that ends a request with an error changes no  *)
(* file, a finished request does nothing more, and every deletion is the   *)
(* cleanup of a request answered 200.                                      *)
(***************************************************************************)
C15_ErrorDeletesNothing ==
    /\ [](\A r \in Requests :
             /\ bg[r] => /\ spawned[r] = ProcOrder
                         /\ filename[r] # ""
                         /\ pc[r] \in {"send", "streaming", "sent", "done"}
             /\ pc[r] = "done" /\ resp[r] \in {400, 500} /\ bg[r] =>
                   err[r].cause = "FileMissingAtSend")
    /\ [][/\ \A r \in Requests :
               /\ pc[r] # "done" /\ pc'[r] = "done" /\ resp'[r] \in {400, 500} => fs' = fs
               /\ pc[r] = "done" => pc'[r] = "done" /\ bg'[r] = bg[r]
          /\ \A p \in Paths :
               fs[p] # Absent /\ fs'[p] = Absent =>
                  \E r \in Requests :
                     /\ pc[r] = "sent" /\ pc'[r] = "done"
                     /\ resp[r] = 200 /\ cmd[r].output = p]_vars

\* the fetch failed after it had written its file, and the file is still there
C15_Witness ==
    /\ pc["r1"] = "done"
    /\ err["r1"].cause = "FetchError"
    /\ resp["r1"] = 500
    /\ ~bg["r1"]
    /\ fs[cmd["r1"].output] = "r1"
    /\ pc["r2"] = "idle"

(***************************************************************************)
(* C16: when the fetch exited with zero and the output file does not exist *)
(* the handler still builds its response without an error, and the request *)
(* is answered 500 when the file is missing at send; 200 is sent only for  *)
(* a file that exists.                                                     *)
(***************************************************************************)
C16_MissingOutputIs500 ==
    /\ [](\A r \in Requests :
             err[r].cause = "FileMissingAtSend" =>
                 /\ pc[r] = "done"
                 /\ resp[r] = 500
                 /\ spawned[r] = ProcOrder)
    /\ [][\A r \in Requests :
             /\ pc[r] = "respond" /\ fs[cmd[r].output] = Absent /\ pc'[r] # pc[r] =>
                   pc'[r] = "send" /\ resp'[r] = 0 /\ err'[r] = NoErr
             /\ pc[r] = "send" /\ fs[cmd[r].output] = Absent /\ pc'[r] # pc[r] =>
                   pc'[r] = "done" /\ resp'[r] = 500
             /\ resp'[r] = 200 /\ resp[r] # 200 =>
                   pc[r] = "send" /\ fs[cmd[r].output] # Absent]_vars

\* the only request ever made: its fetch exited with zero, wrote nothing,
\* and the request was answered 500
C16_Witness ==
    /\ err["r1"].cause = "FileMissingAtSend"
    /\ resp["r1"] = 500
    /\ spawned["r1"] = ProcOrder
    /\ pc["r2"] = "idle"


(***************************************************************************)
(* C17: a fetch is a segment fetch exactly when the lowercased mode is     *)
(* "segment" and both bounds are present; with any other mode the request  *)
(* is never rejected for its bounds and its fetch is the full fetch, whose *)
(* command and output path do not depend on start_time and end_time.       *)
(***************************************************************************)
C17_ModeDispatch ==
    \A r \in Requests :
        /\ "yt-dlp fetch" \in Range(spawned[r]) =>
              /\ cmd[r].ss # None <=>
                    /\ lower[req[r].mode] = ModeSegment
                    /\ req[r].start_time # None
                    /\ req[r].end_time # None
              /\ cmd[r].ss = None =>
                    cmd[r] = [output |-> <<"downloads", "full_video.mp4">>,
                              ss |-> None, t |-> None, args |-> ""]
              /\ lower[req[r].mode] # ModeSegment => cmd[r].ss = None
        /\ err[r].cause = "MissingSegmentBounds" => SegmentWithoutBounds(req[r])
        /\ SegmentWithoutBounds(req[r]) => spawned[r] = <<>>

\* an unrecognized mode with both bounds given is fetched as a full video
C17_Witness ==
    /\ req["r1"].mode = ModeOther
    /\ req["r1"].start_time = <<10>>
    /\ req["r1"].end_time = <<25>>
    /\ pc["r1"] = "wait_fetch"
    /\ cmd["r1"].output = <<"downloads", "full_video.mp4">>
    /\ cmd["r1"].args = ""

(***************************************************************************)
(* C18: under fair scheduling every received request is eventually         *)
(* finished with exactly one response, 200, 400 or 500: the status, once   *)
(* sent, never changes, and a finished request takes no further step.      *)
(***************************************************************************)
C18_EveryRequestAnswered ==
    /\ \A r \in Requests :
          pc[r] = "received" ~> (pc[r] = "done" /\ resp[r] \in {200, 400, 500})
    /\ [][\A r \in Requests :
             /\ resp[r] # 0 => resp'[r] = resp[r]
             /\ pc[r] = "done" =>
                   /\ pc'[r] = "done"
                   /\ spawned'[r] = spawned[r]
                   /\ bg'[r] = bg[r]
                   /\ err'[r] = err[r]]_vars

\* one request was answered 200 and cleaned up, the other was answered 400,
\* and both handlers have stopped
C18_Witness ==
    /\ pc["r1"] = "done" /\ resp["r1"] = 200
    /\ pc["r2"] = "done" /\ resp["r2"] = 400

=============================================================================
